---- MODULE Spec2Model ----
(***************************************************************************)
(* Tic-tac-toe with move history (src/src/index.js).                       *)
(*                                                                         *)
(* The Game component keeps this.state = {history, stepNumber, xIsNext};   *)
(* handleClick(i) and jumpTo(step) are its two event handlers, render()    *)
(* derives the status line, getWinner and isFull are pure helpers.         *)
(*                                                                         *)
(* A board is a function 0..8 -> {Null, CrossMark, NoughtMark}, a history  *)
(* entry is the record [squares |-> board], as in the source.  The marks   *)
(* of the source are the non-ASCII strings U+2573 and U+25EF; they are     *)
(* written "CROSS" and "NOUGHT" here.                                      *)
(*                                                                         *)
(* The earlier revision (src/tic-tac-toe/src/index.js) keeps the squares   *)
(* and xIsNext in the Board component, without history; its marks are "X"  *)
(* and "O".                                                                *)
(***************************************************************************)
EXTENDS Naturals, Integers, Sequences, FiniteSets, TLC

VARIABLES
    state,      \* this.state of Game: [history, stepNumber, xIsNext]
    last,       \* the last event handled: the handler, its argument, and
                \* stepNumber and history.length as they were before it
    squares,    \* the board handed to the helpers (pure-function specification)
    ret,        \* what the helpers and render returned for it
    board,      \* this.state of Board in the earlier revision: [squares, xIsNext]
    queue,      \* the setState updates issued and not yet applied, in batches
    view,       \* what the last render read of this.state
    run         \* the step the last jump led to (0 before any) and the moves
                \* accepted since

vars == <<state, last, squares, ret, board, queue, view, run>>

\* the variables of the update queue and of render
reactVars == <<queue, view>>

\* the variables of the helpers' specification
helperVars == <<squares, ret>>

----------------------------------------------------------------------------
(* Values *)

Null == "null"
CrossMark == "CROSS"
NoughtMark == "NOUGHT"

NumSquares == 9
Cells == 0 .. (NumSquares - 1)

\* Array(9).fill(null)
EmptySquares == [c \in Cells |-> Null]

\* every array of 9 cells over {null, cross, nought}
Boards == [Cells -> {Null, CrossMark, NoughtMark}]

\* what reading an index that an array does not hold gives
Undefined == "undefined"

\* squares[i]: the element at index i, undefined when the array holds none
Get(sq, i) == IF i \in DOMAIN sq THEN sq[i] ELSE Undefined

\* a value is truthy unless it is null or undefined (the marks are
\* non-empty strings)
Truthy(v) == v # Null /\ v # Undefined

\* squares.length: one more than the largest index held, negative keys are
\* properties that do not count
Length(sq) ==
    LET held == {d \in DOMAIN sq : d >= 0}
    IN  IF held = {} THEN 0
        ELSE 1 + (CHOOSE d \in held : \A e \in held : e <= d)

\* squares.slice(): a copy of the elements at the indices 0 .. length - 1;
\* properties under other keys are not copied
slice(sq) == [d \in {e \in DOMAIN sq : e >= 0} |-> sq[d]]

\* squares[i] = v: the array with v at index (or key) i
Store(sq, i, v) == [d \in DOMAIN sq \cup {i} |-> IF d = i THEN v ELSE sq[d]]

\* a direct call passes an argument up to Margin outside its range
Margin == 1

\* a history holds no more than MaxStray moves made outside the board
MaxStray == 1

\* the moves of a game pass over no more than MaxSkips empty cells in all
\* (a move to the first empty cell passes over none, to the second over one)
MaxSkips == 3

----------------------------------------------------------------------------
(* getWinner *)

\* the table with its last diagonal mistyped
lines_WrongDiagonal ==
    << <<0, 1, 2>>, <<3, 4, 5>>, <<6, 7, 8>>,
       <<0, 3, 6>>, <<1, 4, 7>>, <<2, 5, 8>>,
       <<0, 4, 8>>, <<2, 4, 5>> >>

lines ==
    << <<0, 1, 2>>,
       <<3, 4, 5>>,
       <<6, 7, 8>>,
       <<0, 3, 6>>,
       <<1, 4, 7>>,
       <<2, 5, 8>>,
       <<0, 4, 8>>,
       <<2, 4, 6>> >>

\* the for loop of getWinner from index i (1-based here) on
RECURSIVE getWinnerFrom(_, _)
getWinnerFrom(sq, i) ==
    IF i > Len(lines) THEN Null
    ELSE LET a == lines[i][1]
             b == lines[i][2]
             c == lines[i][3]
         IN  IF sq[a] # Null /\ sq[a] = sq[b] /\ sq[a] = sq[c]
             THEN sq[a]
             ELSE getWinnerFrom(sq, i + 1)

\* getWinner whose loop starts at the second line (let i = 1)
getWinner_FromSecondLine(sq) == getWinnerFrom(sq, 2)

getWinner(sq) == getWinnerFrom(sq, 1)

\* the for loop of isFull from index i on
RECURSIVE isFullFrom(_, _)
isFullFrom(sq, i) ==
    IF i >= Length(sq) THEN TRUE
    ELSE IF Get(sq, i) = Null THEN FALSE
    ELSE isFullFrom(sq, i + 1)

isFull(sq) == isFullFrom(sq, 0)

----------------------------------------------------------------------------
(* render: the status line *)

StatusNext(mark) == <<"Next player: ", mark>>
StatusWins(mark) == <<mark, " wins. Yay!!!">>
StatusTie == <<"It's a tie! Try again?">>

\* render that tests isFull before the winner
renderStatus_TieFirst(sq, xIsNext) ==
    LET winner == getWinner(sq)
        status == StatusNext(IF xIsNext THEN CrossMark ELSE NoughtMark)
    IN  IF isFull(sq) THEN StatusTie
        ELSE IF winner # Null THEN StatusWins(winner)
        ELSE status

\* the status computed by render for the viewed squares
renderStatus(sq, xIsNext) ==
    LET winner == getWinner(sq)
        status == StatusNext(IF xIsNext THEN CrossMark ELSE NoughtMark)
    IN  IF winner # Null THEN StatusWins(winner)
        ELSE IF isFull(sq) THEN StatusTie
        ELSE status

\* render reads history[this.state.stepNumber] (1-based sequence here)
current(s) == s.history[s.stepNumber + 1]

render(s) == renderStatus(current(s).squares, s.xIsNext)

----------------------------------------------------------------------------
(* this.setState(update): the fields of update replace those of this.state *)

setState(s, update) ==
    [k \in DOMAIN s |-> IF k \in DOMAIN update THEN update[k] ELSE s[k]]

\* Game.constructor
InitialState ==
    [history |-> << [squares |-> EmptySquares] >>,
     stepNumber |-> 0,
     xIsNext |-> TRUE]

\* handleClick with the two marks of the ternary exchanged
handleClick_SwappedMarks(s, i) ==
    LET history == SubSeq(s.history, 1, s.stepNumber + 1)
        sq == history[Len(history)].squares
    IN  IF getWinner(sq) # Null \/ sq[i] # Null
        THEN s
        ELSE setState(s,
                [history |-> history \o
                    << [squares |-> [sq EXCEPT ![i] =
                                       IF s.xIsNext THEN NoughtMark ELSE CrossMark]] >>,
                 stepNumber |-> Len(history),
                 xIsNext |-> ~s.xIsNext])

\* handleClick that ignores a click on a taken square only
handleClick_NoWinnerCheck(s, i) ==
    LET history == SubSeq(s.history, 1, s.stepNumber + 1)
        sq == history[Len(history)].squares
    IN  IF sq[i] # Null
        THEN s
        ELSE setState(s,
                [history |-> history \o
                    << [squares |-> [sq EXCEPT ![i] =
                                       IF s.xIsNext THEN CrossMark ELSE NoughtMark]] >>,
                 stepNumber |-> Len(history),
                 xIsNext |-> ~s.xIsNext])

\* handleClick that ignores a click on a finished game only
handleClick_Overwrites(s, i) ==
    LET history == SubSeq(s.history, 1, s.stepNumber + 1)
        sq == history[Len(history)].squares
    IN  IF getWinner(sq) # Null
        THEN s
        ELSE setState(s,
                [history |-> history \o
                    << [squares |-> [sq EXCEPT ![i] =
                                       IF s.xIsNext THEN CrossMark ELSE NoughtMark]] >>,
                 stepNumber |-> Len(history),
                 xIsNext |-> ~s.xIsNext])

\* handleClick that appends to the whole history (no slice to stepNumber + 1)
handleClick_NoSlice(s, i) ==
    LET history == s.history
        sq == s.history[s.stepNumber + 1].squares
    IN  IF getWinner(sq) # Null \/ sq[i] # Null
        THEN s
        ELSE setState(s,
                [history |-> history \o
                    << [squares |-> [sq EXCEPT ![i] =
                                       IF s.xIsNext THEN CrossMark ELSE NoughtMark]] >>,
                 stepNumber |-> s.stepNumber + 1,
                 xIsNext |-> ~s.xIsNext])

\* handleClick that writes into current.squares itself (no slice()), so the
\* snapshot viewed gets the mark too
handleClick_InPlace(s, i) ==
    LET history == SubSeq(s.history, 1, s.stepNumber + 1)
        sq == history[Len(history)].squares
        marked == [squares |-> Store(sq, i,
                                 IF s.xIsNext THEN CrossMark ELSE NoughtMark)]
    IN  IF getWinner(sq) # Null \/ Truthy(Get(sq, i))
        THEN s
        ELSE setState(s,
                [history |-> SubSeq(history, 1, Len(history) - 1)
                                \o << marked, marked >>,
                 stepNumber |-> Len(history),
                 xIsNext |-> ~s.xIsNext])

\* handleClick that leaves stepNumber at the entry before the one appended
handleClick_StepBehind(s, i) ==
    LET history == SubSeq(s.history, 1, s.stepNumber + 1)
        sq == slice(history[Len(history)].squares)
    IN  IF getWinner(sq) # Null \/ Truthy(Get(sq, i))
        THEN s
        ELSE setState(s,
                [history |-> history \o
                    << [squares |-> Store(sq, i,
                                       IF s.xIsNext THEN CrossMark ELSE NoughtMark)] >>,
                 stepNumber |-> Len(history) - 1,
                 xIsNext |-> ~s.xIsNext])

\* this.state after handleClick(i)
handleClick(s, i) ==
    LET history == SubSeq(s.history, 1, s.stepNumber + 1)
        cur == history[Len(history)]
        sq == slice(cur.squares)
    IN  IF getWinner(sq) # Null \/ Truthy(Get(sq, i))
        THEN s
        ELSE setState(s,
                [history |-> history \o
                    << [squares |-> Store(sq, i,
                                       IF s.xIsNext THEN CrossMark ELSE NoughtMark)] >>,
                 stepNumber |-> Len(history),
                 xIsNext |-> ~s.xIsNext])

\* jumpTo that also drops the snapshots after the step jumped to
jumpTo_Truncates(s, step) ==
    setState(s, [history |-> SubSeq(s.history, 1, step + 1),
                 stepNumber |-> step,
                 xIsNext |-> (step % 2) = 0])

\* jumpTo that recomputes the player and leaves stepNumber as it was
jumpTo_KeepsStep(s, step) ==
    LET s1 == IF step = 0
              THEN setState(s, [history |-> << [squares |-> EmptySquares] >>])
              ELSE s
    IN  setState(s1, [xIsNext |-> (step % 2) = 0])

\* jumpTo whose restart installs a history without any snapshot
jumpTo_EmptyHistory(s, step) ==
    LET s1 == IF step = 0
              THEN setState(s, [history |-> << >>])
              ELSE s
    IN  setState(s1, [stepNumber |-> step, xIsNext |-> (step % 2) = 0])

\* jumpTo whose second setState is the else branch of the restart test
jumpTo_RestartOnly(s, step) ==
    IF step = 0
    THEN setState(s, [history |-> << [squares |-> EmptySquares] >>])
    ELSE setState(s, [stepNumber |-> step, xIsNext |-> (step % 2) = 0])

\* jumpTo that moves the step and leaves xIsNext as it was
jumpTo_KeepsPlayer(s, step) ==
    LET s1 == IF step = 0
              THEN setState(s, [history |-> << [squares |-> EmptySquares] >>])
              ELSE s
    IN  setState(s1, [stepNumber |-> step])

\* this.state after jumpTo(step): both setState calls of the handler
jumpTo(s, step) ==
    LET s1 == IF step = 0
              THEN setState(s, [history |-> << [squares |-> EmptySquares] >>])
              ELSE s
    IN  setState(s1, [stepNumber |-> step, xIsNext |-> (step % 2) = 0])

----------------------------------------------------------------------------
(* The earlier revision: Board of src/tic-tac-toe/src/index.js *)

Board_X == "X"
Board_O == "O"

Board_lines ==
    << <<0, 1, 2>>,
       <<3, 4, 5>>,
       <<6, 7, 8>>,
       <<0, 3, 6>>,
       <<1, 4, 7>>,
       <<2, 5, 8>>,
       <<0, 4, 8>>,
       <<2, 4, 6>> >>

RECURSIVE Board_getWinnerFrom(_, _)
Board_getWinnerFrom(sq, i) ==
    IF i > Len(Board_lines) THEN Null
    ELSE LET a == Board_lines[i][1]
             b == Board_lines[i][2]
             c == Board_lines[i][3]
         IN  IF sq[a] # Null /\ sq[a] = sq[b] /\ sq[a] = sq[c]
             THEN sq[a]
             ELSE Board_getWinnerFrom(sq, i + 1)

Board_getWinner(sq) == Board_getWinnerFrom(sq, 1)

\* Board.constructor
Board_InitialState ==
    [squares |-> [c \in Cells |-> Null],
     xIsNext |-> TRUE]

\* Board.handleClick that ignores a click on a taken square only
Board_handleClick_NoWinnerCheck(b, i) ==
    LET sq == slice(b.squares)
    IN  IF Truthy(Get(sq, i))
        THEN b
        ELSE setState(b,
                [squares |-> Store(sq, i, IF b.xIsNext THEN Board_X ELSE Board_O),
                 xIsNext |-> ~b.xIsNext])

\* this.state of Board after handleClick(i)
Board_handleClick(b, i) ==
    LET sq == slice(b.squares)
    IN  IF Board_getWinner(sq) # Null \/ Truthy(Get(sq, i))
        THEN b
        ELSE setState(b,
                [squares |-> Store(sq, i, IF b.xIsNext THEN Board_X ELSE Board_O),
                 xIsNext |-> ~b.xIsNext])

----------------------------------------------------------------------------
(* The handlers as the setState calls they issue.  The calls a handler     *)
(* makes while it runs form one batch; the batch is applied, update after  *)
(* update, when the handler has returned, and render runs once after it.   *)

\* the setState call of handleClick(i) in this.state s: none when the click
\* is ignored, else the one update with the three fields computed from s
handleClickBatches(s, i) ==
    LET t == handleClick(s, i)
    IN  IF t = s THEN << >>
        ELSE << [sync |-> TRUE,
                 updates |-> << [history |-> t.history,
                                 stepNumber |-> t.stepNumber,
                                 xIsNext |-> t.xIsNext] >>] >>

\* the first setState call of jumpTo(step): the restart
jumpToRestart(step) ==
    IF step = 0
    THEN << [history |-> << [squares |-> EmptySquares] >>] >>
    ELSE << >>

\* the second setState call of jumpTo(step)
jumpToStep(step) == << [stepNumber |-> step, xIsNext |-> (step % 2) = 0] >>

\* jumpTo that issues its second setState from a later task, once the
\* first has been applied
jumpToBatches_Deferred(step) ==
    IF step = 0
    THEN << [sync |-> TRUE, updates |-> jumpToRestart(step)],
            [sync |-> FALSE, updates |-> jumpToStep(step)] >>
    ELSE << [sync |-> TRUE, updates |-> jumpToStep(step)] >>

\* the setState calls of jumpTo(step): both in the handler itself
jumpToBatches(step) ==
    << [sync |-> TRUE, updates |-> jumpToRestart(step) \o jumpToStep(step)] >>

\* this.state after the updates of a batch, applied in the order issued
RECURSIVE applyUpdates(_, _)
applyUpdates(s, updates) ==
    IF updates = << >> THEN s
    ELSE applyUpdates(setState(s, Head(updates)), Tail(updates))

\* what render reads of this.state s: history and history[stepNumber];
\* reading squares of an entry that does not exist throws
renderView(s) ==
    IF s.stepNumber >= 0 /\ s.stepNumber < Len(s.history)
    THEN [ok |-> TRUE, length |-> Len(s.history), stepNumber |-> s.stepNumber,
          status |-> render(s)]
    ELSE [ok |-> FALSE, length |-> Len(s.history), stepNumber |-> s.stepNumber,
          status |-> << >>]

----------------------------------------------------------------------------
(* Inputs *)

\* the number of empty cells of sq before cell c
Rank(sq, c) == Cardinality({d \in Cells : d < c /\ sq[d] = Null})

\* the empty cells passed over by the move that led from squares p to squares q
Skipped(p, q) ==
    Cardinality({d \in Cells :
        /\ p[d] = Null
        /\ \E c \in Cells : p[c] = Null /\ q[c] # Null
        /\ \A c \in Cells : c <= d => ~(p[c] = Null /\ q[c] # Null)})

\* the empty cells passed over by the moves of history up to entry n
RECURSIVE Skips(_, _)
Skips(history, n) ==
    IF n <= 1 THEN 0
    ELSE Skips(history, n - 1) + Skipped(history[n - 1].squares, history[n].squares)

\* the cells the user clicks on the board viewed in this.state s: a taken
\* cell, or an empty one as long as the game it leads to passes over no more
\* than MaxSkips empty cells
Clickable(s) ==
    UNION { {c \in Cells : sq[c] = Null => Rank(sq, c) <= left} :
            <<sq, left>> \in { << s.history[s.stepNumber + 1].squares,
                                  MaxSkips - Skips(s.history, s.stepNumber + 1) >> } }

\* render lists one button per history entry: history.map((step, move) => ...)
Moves(s) == 0 .. (Len(s.history) - 1)

----------------------------------------------------------------------------
(* The game: events of the user *)

\* the record kept of an event handled in this.state s
Event(op, arg, s) ==
    [op |-> op, arg |-> arg, stepNumber |-> s.stepNumber, length |-> Len(s.history)]

Init ==
    /\ state = InitialState
    /\ last = Event("init", 0, InitialState)
    /\ squares = EmptySquares
    /\ ret = <<>>
    /\ board = Board_InitialState
    /\ queue = << >>
    /\ view = renderView(InitialState)
    /\ run = [base |-> 0, moves |-> 0]

\* a click on square i of the board shown
Click ==
    \E i \in Clickable(state) :
        /\ state' = handleClick(state, i)
        /\ last' = Event("click", i, state)
        /\ UNCHANGED <<helperVars, board, reactVars, run>>

\* a click on the history button of move step
Jump ==
    \E step \in Moves(state) :
        /\ state' = jumpTo(state, step)
        /\ last' = Event("jump", step, state)
        /\ UNCHANGED <<helperVars, board, reactVars, run>>

Next == Click \/ Jump

Spec == Init /\ [][Next]_vars

----------------------------------------------------------------------------
(* The handlers called with any argument, in the range the buttons give    *)
(* or outside it                                                           *)

\* the moves of history up to entry n that left the cells 0..8 as they were
RECURSIVE Stray(_, _)
Stray(history, n) ==
    IF n <= 1 THEN 0
    ELSE Stray(history, n - 1) +
         (IF \A c \in Cells : history[n].squares[c] = history[n - 1].squares[c]
          THEN 1 ELSE 0)

\* the indices up to Margin below 0 and above 8
StrayCells == ((0 - Margin) .. (0 - 1)) \cup (NumSquares .. (NumSquares - 1 + Margin))

\* the arguments handleClick is called with in this.state s: the cells the
\* user clicks, and an index outside the board, which passes over every
\* empty cell of the board
CallCells(s) ==
    LET sq == s.history[s.stepNumber + 1].squares
    IN  Clickable(s) \cup
        {c \in StrayCells :
            /\ Stray(s.history, s.stepNumber + 1) < MaxStray
            /\ Skips(s.history, s.stepNumber + 1) + Rank(sq, NumSquares) <= MaxSkips}

\* the arguments jumpTo is called with in this.state s
CallSteps(s) == (0 - Margin) .. (Len(s.history) - 1 + Margin)

\* render can read history[stepNumber].squares; when it cannot, it throws
\* and the component is unmounted
Mounted(s) == s.stepNumber >= 0 /\ s.stepNumber < Len(s.history)

\* handleClick(i) with any i
CallClick ==
    /\ Mounted(state)
    /\ \E i \in CallCells(state) :
        /\ state' = handleClick(state, i)
        /\ last' = Event("click", i, state)
    /\ UNCHANGED <<helperVars, board, reactVars, run>>

\* jumpTo(step) with any step
CallJump ==
    /\ Mounted(state)
    /\ \E step \in CallSteps(state) :
        /\ state' = jumpTo(state, step)
        /\ last' = Event("jump", step, state)
    /\ UNCHANGED <<helperVars, board, reactVars, run>>

NextCalls == CallClick \/ CallJump

SpecCalls == Init /\ [][NextCalls]_vars

----------------------------------------------------------------------------
(* The two revisions side by side: the same clicks on the squares, no      *)
(* click on the history                                                    *)

ClickBoth ==
    \E i \in Clickable(state) :
        /\ state' = handleClick(state, i)
        /\ board' = Board_handleClick(board, i)
        /\ last' = Event("click", i, state)
        /\ UNCHANGED <<helperVars, reactVars, run>>

NextRevisions == ClickBoth

SpecRevisions == Init /\ [][NextRevisions]_vars

----------------------------------------------------------------------------
(* The events with their updates queued: a handler runs, its batch is      *)
(* applied and render runs, and then the next event is taken               *)

\* no batch of a handler that has run is waiting to be applied, and the
\* component is on the page
Idle ==
    /\ \A k \in 1 .. Len(queue) : ~queue[k].sync
    /\ view.ok

\* handleClick(i) runs
DispatchClick ==
    /\ Idle
    /\ \E i \in Clickable(state) :
        /\ queue' = handleClickBatches(state, i) \o queue
        /\ last' = Event("click", i, state)
    /\ UNCHANGED <<state, view, helperVars, board, run>>

\* jumpTo(step) runs
DispatchJump ==
    /\ Idle
    /\ \E step \in Moves(state) :
        /\ queue' = jumpToBatches(step) \o queue
        /\ last' = Event("jump", step, state)
    /\ UNCHANGED <<state, view, helperVars, board, run>>

\* the first batch queued is applied and render runs
Flush ==
    /\ queue # << >>
    /\ state' = applyUpdates(state, Head(queue).updates)
    /\ queue' = Tail(queue)
    /\ view' = renderView(state')
    /\ UNCHANGED <<last, helperVars, board, run>>

NextReact == DispatchClick \/ DispatchJump \/ Flush

SpecReact == Init /\ [][NextReact]_vars

----------------------------------------------------------------------------
(* The game with its moves counted from one jump to the next; the player   *)
(* goes on clicking an empty cell while there is one to take               *)

\* a click on square i: one more move when handleClick(i) appends a snapshot
RunClickOn(i) ==
    /\ state' = handleClick(state, i)
    /\ run' = [run EXCEPT !.moves = IF state' = state THEN @ ELSE @ + 1]
    /\ UNCHANGED <<last, helperVars, board, reactVars>>

\* a click on a square of the board shown
RunClick == \E i \in Clickable(state) : RunClickOn(i)

\* a click on an empty square of the board shown
RunClickEmpty ==
    \E i \in Cells : current(state).squares[i] = Null /\ RunClickOn(i)

\* a click on the history button of move step
RunJump ==
    \E step \in Moves(state) :
        /\ state' = jumpTo(state, step)
        /\ run' = [base |-> step, moves |-> 0]
        /\ UNCHANGED <<last, helperVars, board, reactVars>>

NextRuns == RunClick \/ RunJump

\* the player goes on clicking an empty square while a click changes the game
SpecRuns == Init /\ [][NextRuns]_vars /\ WF_vars(RunClickEmpty)

----------------------------------------------------------------------------
(* The helpers on every board *)

InitBoards ==
    /\ state = InitialState
    /\ last = Event("init", 0, InitialState)
    /\ squares \in Boards
    /\ ret = <<>>
    /\ board = Board_InitialState
    /\ queue = << >>
    /\ view = renderView(InitialState)
    /\ run = [base |-> 0, moves |-> 0]

\* getWinner(squares), isFull(squares) and the status render derives from them
Evaluate ==
    /\ ret = <<>>
    /\ \E x \in BOOLEAN :
        ret' = [winner |-> getWinner(squares),
                full |-> isFull(squares),
                xIsNext |-> x,
                status |-> renderStatus(squares, x)]
    /\ UNCHANGED <<state, last, squares, board, reactVars, run>>

NextBoards == Evaluate

SpecBoards == InitBoards /\ [][NextBoards]_vars

----------------------------------------------------------------------------
(* Vocabulary of the properties, stated without the helpers of the program *)

Marks == {CrossMark, NoughtMark}

\* the 3 rows, the 3 columns and the 2 diagonals of the 3x3 grid
Rows == {{3 * r, 3 * r + 1, 3 * r + 2} : r \in 0 .. 2}
Columns == {{c, c + 3, c + 6} : c \in 0 .. 2}
Diagonals == {{0, 4, 8}, {2, 4, 6}}
Triples == Rows \cup Columns \cup Diagonals

\* mark m holds all three cells of some triple of sq
HasTriple(sq, m) == \E t \in Triples : \A c \in t : sq[c] = m

NoTriple(sq) == \A m \in Marks : ~HasTriple(sq, m)
NoEmptyCell(sq) == \A c \in Cells : sq[c] # Null
Terminal(sq) == ~NoTriple(sq) \/ NoEmptyCell(sq)

\* the board viewed: history[stepNumber].squares
Viewed(s) == s.history[s.stepNumber + 1].squares

\* the last event was a click that appended a move
ClickAccepted == last.op = "click" /\ state.stepNumber = last.stepNumber + 1
\* the last event was a click that left stepNumber where it was
ClickIgnored == last.op = "click" /\ state.stepNumber = last.stepNumber

\* moves 0(X), 3(O), 1(X), 4(O), 2(X): the top row is complete
TopRowBoard ==
    [c \in Cells |-> IF c \in {0, 1, 2} THEN CrossMark
                     ELSE IF c \in {3, 4} THEN NoughtMark
                     ELSE Null]

----------------------------------------------------------------------------
(* C1: for every board of 9 cells over {empty, X, O}, getWinner returns a  *)
(* mark if and only if some row, column or diagonal holds the same         *)
(* non-empty mark in all three cells, the mark returned occupies such a    *)
(* triple, and otherwise it returns null.                                  *)
C1_GetWinnerIffTriple ==
    ret # <<>> =>
        /\ ret.winner \in Marks \cup {Null}
        /\ (ret.winner # Null) <=> (\E m \in Marks : HasTriple(squares, m))
        /\ ret.winner # Null => HasTriple(squares, ret.winner)

\* the scenario 0(X),3(O),1(X),4(O),2(X) evaluated: the winner is X
C1_Witness ==
    /\ ret # <<>>
    /\ squares = TopRowBoard
    /\ ret.winner = CrossMark

(* C2: in every reachable state xIsNext (the next player is X) holds       *)
(* exactly when stepNumber is even, in particular right after a jumpTo     *)
(* and right after an accepted move.                                       *)
C2_NextPlayerIsStepParity ==
    /\ state.xIsNext <=> (state.stepNumber % 2 = 0)
    /\ NoTriple(Viewed(state)) /\ ~NoEmptyCell(Viewed(state)) =>
            render(state) = StatusNext(IF state.stepNumber % 2 = 0
                                       THEN CrossMark ELSE NoughtMark)

\* a jump from an even step to an odd one: the player had to be recomputed
C2_Witness ==
    /\ last.op = "jump"
    /\ last.stepNumber % 2 = 0
    /\ last.arg % 2 = 1
    /\ state.stepNumber = last.arg
    /\ ~state.xIsNext

\* empty board, moves at cells 0, 4, 8 by X, O, X
DiagonalGame == handleClick(handleClick(handleClick(InitialState, 0), 4), 8)
DiagonalBoard ==
    [c \in Cells |-> IF c \in {0, 8} THEN CrossMark
                     ELSE IF c = 4 THEN NoughtMark
                     ELSE Null]

(* C3: when handleClick(i) is called with i in 0..8 on a viewed board      *)
(* whose cell i is empty and which has no winner, the click is accepted:   *)
(* the history ends with a new snapshot equal to the viewed board except   *)
(* that cell i holds the mark of the player who was next, stepNumber grows *)
(* by exactly 1 and points at that snapshot, and xIsNext is flipped.  The  *)
(* moves 0, 4, 8 from the empty board give [X,_,_,_,O,_,_,_,X], no winner. *)
C3_AcceptedMoveEffect ==
    /\ Viewed(DiagonalGame) = DiagonalBoard
    /\ DiagonalGame.stepNumber = 3
    /\ render(DiagonalGame) = StatusNext(NoughtMark)
    /\ [][ (/\ last'.op = "click"
            /\ Viewed(state)[last'.arg] = Null
            /\ NoTriple(Viewed(state)))
           => (/\ state'.stepNumber = state.stepNumber + 1
               /\ Len(state'.history) = state'.stepNumber + 1
               /\ Viewed(state') =
                     [c \in Cells |->
                        IF c = last'.arg
                        THEN (IF state.xIsNext THEN CrossMark ELSE NoughtMark)
                        ELSE Viewed(state)[c]]
               /\ state'.xIsNext = ~state.xIsNext) ]_vars

\* an accepted move of O
C3_Witness ==
    /\ ClickAccepted
    /\ Len(state.history) = state.stepNumber + 1
    /\ Viewed(state)[last.arg] = NoughtMark
    /\ state.xIsNext

(* C4: handleClick on a terminal state never changes the state: whenever   *)
(* the viewed board is won or is full without a winner, a click on any     *)
(* cell 0..8 leaves history, stepNumber and xIsNext unchanged (and so the  *)
(* board stays terminal for every further click until a jumpTo).           *)
C4_TerminalClickIgnored ==
    [][ (last'.op = "click" /\ Terminal(Viewed(state))) => state' = state ]_vars

\* a click on an empty cell of a won board, ignored
C4_Witness ==
    /\ ClickIgnored
    /\ ~NoTriple(Viewed(state))
    /\ Viewed(state)[last.arg] = Null

(* C5: handleClick on an occupied cell is a no-op: if cell i of the viewed *)
(* board holds a mark, handleClick(i) leaves history (the snapshots beyond *)
(* stepNumber included), stepNumber and xIsNext unchanged.                 *)
C5_OccupiedClickIgnored ==
    [][ (last'.op = "click" /\ Viewed(state)[last'.arg] # Null)
            => state' = state ]_vars

\* a click on a taken cell of an unfinished board viewed after a jump back
C5_Witness ==
    /\ ClickIgnored
    /\ Viewed(state)[last.arg] # Null
    /\ NoTriple(Viewed(state))
    /\ Len(state.history) > state.stepNumber + 1

(* C6: a move made after jumping back truncates the later history: when a  *)
(* click is accepted with stepNumber = s and history.length > s + 1, the   *)
(* new history has length s + 2 and its entries 0..s are the old entries   *)
(* 0..s; every snapshot that was beyond s is gone.                         *)
C6_MoveAfterJumpTruncates ==
    [][ (/\ last'.op = "click"
         /\ Viewed(state)[last'.arg] = Null
         /\ NoTriple(Viewed(state))
         /\ Len(state.history) > state.stepNumber + 1)
        => (/\ Len(state'.history) = state.stepNumber + 2
            /\ \A k \in 1 .. (state.stepNumber + 1) :
                    state'.history[k] = state.history[k]) ]_vars

\* history of length 4, viewed at step 1, a move accepted: length 3
C6_Witness ==
    /\ ClickAccepted
    /\ last.length = 4
    /\ last.stepNumber = 1
    /\ Len(state.history) = 3

(* C7: jumpTo never truncates or otherwise changes history: for every     *)
(* step in [0, history.length), step 0 included, the history after         *)
(* jumpTo(step) is the history before it.                                  *)
C7_JumpKeepsHistory ==
    [][ last'.op = "jump" => state'.history = state.history ]_vars

(* C7 as amended: jumpTo(step) with step in [1, history.length) leaves     *)
(* history unchanged, so every later step can still be reached by another  *)
(* jumpTo; jumpTo(0) replaces history by the single empty snapshot.        *)
C7_JumpKeepsHistoryUnlessRestart ==
    [][ last'.op = "jump" =>
            IF last'.arg = 0
            THEN state'.history = << [squares |-> [c \in Cells |-> Null]] >>
            ELSE state'.history = state.history ]_vars

\* a jump back to a step other than 0, the later snapshots still there
C7_Witness ==
    /\ last.op = "jump"
    /\ last.arg >= 1
    /\ last.arg < last.stepNumber
    /\ state.stepNumber = last.arg
    /\ Len(state.history) = last.length
    /\ Len(state.history) > state.stepNumber + 1

(* C8: jumpTo is valid from any state and un-terminates the game: from     *)
(* every reachable state, won and drawn ones included, jumpTo(step) with   *)
(* step in [0, history.length) sets stepNumber to step; and if the viewed  *)
(* board was won or drawn and step < stepNumber, the board viewed after    *)
(* the jump is in progress and a click on any of its empty cells is        *)
(* accepted.                                                               *)
C8_JumpUnterminates ==
    [][ last'.op = "jump" =>
            /\ state'.stepNumber = last'.arg
            /\ (Terminal(Viewed(state)) /\ last'.arg < state.stepNumber) =>
                    /\ ~Terminal(Viewed(state'))
                    /\ render(state') \in {StatusNext(m) : m \in Marks}
                    /\ \A c \in Cells :
                            Viewed(state')[c] = Null =>
                                LET t == handleClick(state', c)
                                IN  /\ t.stepNumber = state'.stepNumber + 1
                                    /\ Viewed(t)[c] # Null ]_vars

\* a jump back from the last, terminal snapshot to an earlier step
C8_Witness ==
    /\ last.op = "jump"
    /\ last.arg >= 1
    /\ last.arg < last.stepNumber
    /\ state.stepNumber = last.arg
    /\ last.stepNumber = Len(state.history) - 1
    /\ Terminal(state.history[Len(state.history)].squares)

(* C9: in every reachable state history is non-empty and history[0] is the *)
(* empty board, all 9 cells empty.                                         *)
C9_FirstSnapshotEmpty ==
    /\ Len(state.history) >= 1
    /\ DOMAIN state.history[1].squares = Cells
    /\ \A c \in Cells : state.history[1].squares[c] = Null

\* a restart from a longer history
C9_Witness ==
    /\ last.op = "jump"
    /\ last.arg = 0
    /\ last.length > 1
    /\ Len(state.history) = 1

(* C10: the status of a board is exactly one of won, draw, in progress:    *)
(* won by the mark getWinner returns whenever some triple is complete,     *)
(* also when the board is full; draw exactly when the board has no empty   *)
(* cell and no complete triple; in progress, naming the next player,       *)
(* otherwise.                                                              *)
C10_StatusClassification ==
    ret # <<>> =>
        /\ ret.full <=> NoEmptyCell(squares)
        /\ ~NoTriple(squares) =>
                \E m \in Marks : HasTriple(squares, m) /\ ret.status = StatusWins(m)
        /\ (NoTriple(squares) /\ NoEmptyCell(squares)) <=> ret.status = StatusTie
        /\ (NoTriple(squares) /\ ~NoEmptyCell(squares)) =>
                ret.status = StatusNext(IF ret.xIsNext THEN CrossMark ELSE NoughtMark)
        /\ Cardinality({k \in {"won", "draw", "next"} :
                \/ k = "won" /\ ret.status \in {StatusWins(m) : m \in Marks}
                \/ k = "draw" /\ ret.status = StatusTie
                \/ k = "next" /\ ret.status \in {StatusNext(m) : m \in Marks}}) = 1

\* a full board whose cells hold a complete triple of X: won, not a draw
C10_Witness ==
    /\ ret # <<>>
    /\ NoEmptyCell(squares)
    /\ HasTriple(squares, CrossMark)
    /\ ~HasTriple(squares, NoughtMark)
    /\ Cardinality({c \in Cells : squares[c] = CrossMark}) = 5
    /\ ret.status = StatusWins(CrossMark)

(* C11: an out-of-range jump is a silent no-op: jumpTo(step) with         *)
(* step < 0 or step >= history.length leaves history, stepNumber and       *)
(* xIsNext unchanged, so stepNumber never points outside history.          *)
C11_OutOfRangeJumpIgnored ==
    /\ [][ (last'.op = "jump"
            /\ (last'.arg < 0 \/ last'.arg >= Len(state.history)))
           => state' = state ]_vars
    /\ [](state.stepNumber >= 0 /\ state.stepNumber < Len(state.history))

(* C12: handleClick with a cell index outside [0,9) is a silent no-op:     *)
(* handleClick(i) with i < 0 or i >= 9 leaves history, stepNumber and      *)
(* xIsNext unchanged, and every snapshot of history keeps exactly 9 cells. *)
C12_OutOfRangeClickIgnored ==
    /\ [][ (last'.op = "click" /\ (last'.arg < 0 \/ last'.arg >= NumSquares))
           => state' = state ]_vars
    /\ [](\A k \in 1 .. Len(state.history) :
            DOMAIN state.history[k].squares = Cells)

(* C15: in every state reachable by clicks on the cells 0..8 and on the   *)
(* history buttons listed, 0 <= stepNumber < history.length, so the board  *)
(* render and handleClick read, history[stepNumber], exists; also after    *)
(* jumpTo(0) and after a move made following a jump back.                  *)
C15_StepWithinHistory ==
    /\ state.stepNumber >= 0
    /\ state.stepNumber < Len(state.history)
    /\ state.stepNumber + 1 \in DOMAIN state.history

\* a restart while a later step of a longer history was viewed
C15_Witness ==
    /\ last.op = "jump"
    /\ last.arg = 0
    /\ last.stepNumber >= 2
    /\ last.length > last.stepNumber
    /\ Len(state.history) = 1
    /\ state.stepNumber = 0

\* the cells of sq that hold mark m
Held(sq, m) == {c \in Cells : sq[c] = m}

\* the mark of the player who makes move k
Mover(k) == IF k % 2 = 1 THEN CrossMark ELSE NoughtMark

(* C16: in every reachable state, snapshot k of history holds exactly k    *)
(* marks, ceil(k/2) of them X and floor(k/2) of them O, and for k >= 1 it  *)
(* differs from snapshot k-1 in exactly one cell, empty in k-1, that holds *)
(* X when k is odd and O when k is even; history never holds more than 10  *)
(* snapshots.                                                              *)
C16_SnapshotsCountMoves ==
    /\ Len(state.history) <= NumSquares + 1
    /\ \A k \in 0 .. (Len(state.history) - 1) :
        LET sq == state.history[k + 1].squares
        IN  /\ DOMAIN sq = Cells
            /\ Cardinality(Held(sq, CrossMark)) = (k + 1) \div 2
            /\ Cardinality(Held(sq, NoughtMark)) = k \div 2
            /\ Cardinality(Held(sq, Null)) = NumSquares - k
            /\ k >= 1 =>
                LET before == state.history[k].squares
                    changed == {c \in Cells : sq[c] # before[c]}
                IN  /\ Cardinality(changed) = 1
                    /\ \A c \in changed : before[c] = Null /\ sq[c] = Mover(k)

\* a history of 10 snapshots whose last move was just made after a jump back
C16_Witness ==
    /\ ClickAccepted
    /\ Len(state.history) = NumSquares + 1
    /\ last.length > last.stepNumber + 1

(* C17: in every reachable state only the last snapshot of history can be  *)
(* terminal: every snapshot before the last has no winner and at least one *)
(* empty cell.                                                             *)
C17_OnlyLastSnapshotTerminal ==
    \A k \in 1 .. (Len(state.history) - 1) :
        /\ NoTriple(state.history[k].squares)
        /\ ~NoEmptyCell(state.history[k].squares)

\* an earlier step viewed while the history ends with a won board
C17_Witness ==
    /\ last.op = "jump"
    /\ state.stepNumber + 1 < Len(state.history)
    /\ ~NoTriple(state.history[Len(state.history)].squares)
    /\ Len(state.history) >= 6

\* the triples of sq held by one mark
Complete(sq) == {t \in Triples : \E m \in Marks : \A c \in t : sq[c] = m}

(* C18: on every board of history at most one of the two marks holds a     *)
(* complete triple, and when getWinner returns a mark for snapshot k it is *)
(* the mark of the player who made move k (X if k is odd, O if k is even); *)
(* so every complete triple holds the mark getWinner returns, whatever the *)
(* order in which the triples are examined.                                *)
C18_WinnerIsLastMover ==
    \A k \in 0 .. (Len(state.history) - 1) :
        LET sq == state.history[k + 1].squares
        IN  /\ ~(HasTriple(sq, CrossMark) /\ HasTriple(sq, NoughtMark))
            /\ getWinner(sq) # Null => k >= 1 /\ getWinner(sq) = Mover(k)
            /\ \A t \in Complete(sq) : \A c \in t : sq[c] = getWinner(sq)

\* a board won with two complete triples at once
C18_Witness ==
    /\ ClickAccepted
    /\ Cardinality(Complete(Viewed(state))) = 2
    /\ getWinner(Viewed(state)) = CrossMark

\* the mark of the earlier revision for a cell value of Game
Renamed(v) ==
    IF v = CrossMark THEN Board_X
    ELSE IF v = NoughtMark THEN Board_O
    ELSE v

(* C13: the two revisions agree on play without time travel: after every   *)
(* sequence of clicks on the cells 0..8 applied to both from their initial *)
(* states, the board viewed by Game equals the squares of the earlier      *)
(* Board under the renaming of the marks, both have the same xIsNext, and  *)
(* both accept or ignore each click alike.                                 *)
C13_RevisionsAgree ==
    /\ [](/\ board.squares = [c \in Cells |-> Renamed(Viewed(state)[c])]
          /\ board.xIsNext = state.xIsNext)
    /\ [][ (state' # state) <=> (board' # board) ]_vars

\* a click on an empty cell of a board won by O, ignored by both
C13_Witness ==
    /\ ClickIgnored
    /\ HasTriple(Viewed(state), NoughtMark)
    /\ Viewed(state)[last.arg] = Null
    /\ board.squares[last.arg] = Null
    /\ \E t \in Triples : \A c \in t : board.squares[c] = Board_O

(* C14: each input event is applied as one atomic step: the two updates   *)
(* jumpTo(0) issues are never observed separately (no render and no        *)
(* handler sees history reset to length 1 while stepNumber still holds its *)
(* old value > 0), and no handler computes its new state from a state that *)
(* a pending update of an earlier event has not yet reached; what an event *)
(* leaves is what the handler gives as one step.                           *)
C14_EventsAtomic ==
    /\ [](/\ view.ok
          /\ ~(view.length = 1 /\ view.stepNumber > 0)
          /\ last.stepNumber < last.length)
    /\ [][ Len(queue') >= Len(queue) => queue = << >> ]_vars
    /\ [][ Len(queue') < Len(queue) =>
             /\ queue' = << >>
             /\ state' = (IF last.op = "jump"
                          THEN jumpTo(state, last.arg)
                          ELSE handleClick(state, last.arg)) ]_vars

\* a restart from a later step, applied and rendered
C14_Witness ==
    /\ last.op = "jump"
    /\ last.arg = 0
    /\ last.stepNumber > 0
    /\ last.length > 1
    /\ queue = << >>
    /\ view.length = 1
    /\ view.stepNumber = 0
    /\ Len(state.history) = 1

(* C19: play without time travel terminates: no more than 9 moves are     *)
(* accepted in a run without jumpTo, and if the player keeps clicking an   *)
(* empty cell while the game is in progress, the game reaches a won or     *)
(* drawn board on which every click is ignored; with jumpTo, no more than  *)
(* 9 - stepNumber moves are accepted between one jump and the next.        *)
C19_PlayTerminates ==
    /\ [](/\ run.moves <= NumSquares - run.base
          /\ run.moves = state.stepNumber - run.base
          /\ Terminal(Viewed(state)) =>
                \A i \in Cells : handleClick(state, i) = state)
    /\ ([]<><<RunJump>>_vars \/ <>[]Terminal(Viewed(state)))

\* a game played to a full board after a jump back
C19_Witness ==
    /\ run.base >= 1
    /\ run.moves = NumSquares - run.base
    /\ NoEmptyCell(Viewed(state))
    /\ NoTriple(Viewed(state))

====
